---- MODULE Spec2Model ----
(***************************************************************************)
(* Model of sim/pid_simulation.py: the build / run / load / plot pipeline  *)
(* of the PID desktop simulation tool.                                     *)
(*                                                                         *)
(* Numbers are fixed-point with one fractional digit and are held as an    *)
(* integer count of tenths (3.3 is 33).  Text is a sequence of one-        *)
(* character strings; a log line is the sequence of its comma-separated    *)
(* fields, and a log file is the sequence of its lines.                    *)
(***************************************************************************)
EXTENDS Integers, Sequences, FiniteSets, TLC

\* Largest number of lines the executed artifact prints in one run.
MaxLines == 3

(***************************************************************************)
(* Text and number conversion                                              *)
(***************************************************************************)

Digits == <<"0", "1", "2", "3", "4", "5", "6", "7", "8", "9">>

IsDigit(c) == \E i \in 1..Len(Digits) : Digits[i] = c

DigitVal(c) == (CHOOSE i \in 1..Len(Digits) : Digits[i] = c) - 1

AllDigits(s) == \A i \in 1..Len(s) : IsDigit(s[i])

RECURSIVE IntVal(_)
\* Value of a digit string, most significant digit first.
IntVal(s) ==
    IF s = <<>> THEN 0
    ELSE IntVal(SubSeq(s, 1, Len(s) - 1)) * Len(Digits) + DigitVal(s[Len(s)])

RECURSIVE StripLeft(_)
StripLeft(s) ==
    IF s # <<>> /\ Head(s) = " " THEN StripLeft(Tail(s)) ELSE s

RECURSIVE StripRight(_)
StripRight(s) ==
    IF s # <<>> /\ s[Len(s)] = " " THEN StripRight(SubSeq(s, 1, Len(s) - 1)) ELSE s

Strip(s) == StripRight(StripLeft(s))

\* Index of the first "." of s, 0 when there is none.
DotIndex(s) ==
    IF \E i \in 1..Len(s) : s[i] = "."
    THEN CHOOSE i \in 1..Len(s) : s[i] = "." /\ \A j \in 1..(i - 1) : s[j] # "."
    ELSE 0

\* A failed conversion (float() raising ValueError).
NotANumber == [ok |-> FALSE, val |-> 0]

\* float(field): surrounding blanks are ignored, then an optional sign, an
\* integer part and an optional fraction.  The result is in tenths; the
\* inputs of the model carry at most one fractional digit.
ParseFloat(field) ==
    LET s    == Strip(field)
        neg  == s # <<>> /\ Head(s) = "-"
        body == IF neg THEN Tail(s) ELSE s
        dot  == DotIndex(body)
        ip   == IF dot = 0 THEN body ELSE SubSeq(body, 1, dot - 1)
        fp   == IF dot = 0 THEN <<>> ELSE SubSeq(body, dot + 1, Len(body))
        mag  == IntVal(ip) * Len(Digits)
                  + (IF fp = <<>> THEN 0 ELSE DigitVal(fp[1]))
    IN  IF (ip = <<>> /\ fp = <<>>) \/ ~AllDigits(ip) \/ ~AllDigits(fp)
        THEN NotANumber
        ELSE [ok |-> TRUE, val |-> IF neg THEN -mag ELSE mag]

RECURSIVE FormatNat(_)
\* Decimal digits of a natural number.
FormatNat(n) ==
    IF n < Len(Digits) THEN <<Digits[n + 1]>>
    ELSE FormatNat(n \div Len(Digits)) \o <<Digits[(n % Len(Digits)) + 1]>>

Abs(x) == IF x < 0 THEN -x ELSE x

\* The step column as the artifact prints it: a plain integer ("%d").
FormatStep(v) == FormatNat(v \div Len(Digits))

\* A value column as the artifact prints it: a blank, then the number with
\* its fraction (" 3.0").
FormatValue(v) ==
    <<" ">> \o (IF v < 0 THEN <<"-">> ELSE <<>>)
            \o FormatNat(Abs(v) \div Len(Digits))
            \o <<".">> \o <<Digits[(Abs(v) % Len(Digits)) + 1]>>

(***************************************************************************)
(* The log file the executed artifact prints                               *)
(***************************************************************************)

\* Values of the model, in tenths.
Steps == {0, 10}
Setpoints == {-30, 0, 30}
Measurements == {-20, 33}
Outputs == {10}

\* What one printed line is: a record of the control loop, the header, or
\* one of the lines a faulty artifact may print.
LineKinds == {"record", "header", "short_header", "short_row", "text_row",
              "blank", "comment"}

Line(k, st, sp, me, out) ==
    [kind |-> k, step |-> st, setpoint |-> sp, measurement |-> me, output |-> out]

Records ==
    {Line("record", st, sp, me, out) :
        st \in Steps, sp \in Setpoints, me \in Measurements, out \in Outputs}

OtherLines == {Line(k, 0, 0, 0, 0) : k \in LineKinds \ {"record"}}

RECURSIVE SeqsUpTo(_, _)
\* All sequences over S of length at most n.
SeqsUpTo(S, n) ==
    IF n = 0 THEN {<<>>}
    ELSE LET shorter == SeqsUpTo(S, n - 1)
         IN  shorter \cup {Append(q, x) : q \in {r \in shorter : Len(r) = n - 1}, x \in S}

\* Everything the artifact may print in one run.
Printouts == SeqsUpTo(Records \cup OtherLines, MaxLines)

HeaderFields ==
    << <<"s", "t", "e", "p">>,
       <<"s", "e", "t", "p", "o", "i", "n", "t">>,
       <<"m", "e", "a", "s", "u", "r", "e", "m", "e", "n", "t">>,
       <<"o", "u", "t", "p", "u", "t">> >>

\* The fields of one printed line ("0, 3.0, 0.0, 1.0").
RenderLine(l) ==
    CASE l.kind = "record" ->
            <<FormatStep(l.step), FormatValue(l.setpoint),
              FormatValue(l.measurement), FormatValue(l.output)>>
      [] l.kind = "header" -> HeaderFields
      [] l.kind = "short_header" -> SubSeq(HeaderFields, 1, 2)
      [] l.kind = "short_row" ->
            <<FormatStep(l.step), FormatValue(l.setpoint), FormatValue(l.measurement)>>
      [] l.kind = "text_row" ->
            <<FormatStep(l.step), <<" ", "x">>, FormatValue(l.measurement),
              FormatValue(l.output)>>
      [] l.kind = "blank" -> << <<>> >>
      [] l.kind = "comment" -> << <<"#", "x">> >>

RenderLog(printout) == [i \in 1..Len(printout) |-> RenderLine(printout[i])]

\* The log file before the run: absent, or left by an earlier run.
NoFile == [exists |-> FALSE, text |-> <<>>]
OldLog == [exists |-> TRUE,
           text |-> RenderLog(<<Line("header", 0, 0, 0, 0),
                                Line("record", 0, 30, -20, 10),
                                Line("record", 10, 30, 33, 10)>>)]

(***************************************************************************)
(* np.loadtxt(LOG_FILE, delimiter=",", skiprows=1)                         *)
(***************************************************************************)

HasHash(field) == \E i \in 1..Len(field) : field[i] = "#"

HashIndex(field) ==
    CHOOSE i \in 1..Len(field) : field[i] = "#" /\ \A j \in 1..(i - 1) : field[j] # "#"

\* A line with its comment removed: everything from the first "#" on.
StripComment(line) ==
    IF \E k \in 1..Len(line) : HasHash(line[k])
    THEN LET k == CHOOSE k \in 1..Len(line) :
                     HasHash(line[k]) /\ \A j \in 1..(k - 1) : ~HasHash(line[j])
         IN  SubSeq(line, 1, k - 1)
               \o <<SubSeq(line[k], 1, HashIndex(line[k]) - 1)>>
    ELSE line

IsEmptyLine(line) == line = <<>> \/ line = << <<>> >>

ParseRow(line) == [j \in 1..Len(line) |-> ParseFloat(line[j])]

\* No conversion failure is reported (a failed field is left at 0).
RowOkUnchecked(row) == TRUE

\* Every field of the row was converted; otherwise loadtxt raises ValueError.
RowOk(row) == \A j \in 1..Len(row) : row[j].ok

RowValues(row) == [j \in 1..Len(row) |-> row[j].val]

\* The table loadtxt reads: the first `skiprows` lines are dropped unread,
\* comments and empty lines are dropped, every field is converted with
\* float(), and every row has as many fields as the first.
LoadTxt(text, skiprows) ==
    LET kept   == SubSeq(text, skiprows + 1, Len(text))
        bare   == [i \in 1..Len(kept) |-> StripComment(kept[i])]
        lines  == SelectSeq(bare, LAMBDA l : ~IsEmptyLine(l))
        parsed == [i \in 1..Len(lines) |-> ParseRow(lines[i])]
        good   == \A i \in 1..Len(parsed) :
                     RowOk(parsed[i]) /\ Len(parsed[i]) = Len(parsed[1])
    IN  IF good
        THEN [ok |-> TRUE, rows |-> [i \in 1..Len(parsed) |-> RowValues(parsed[i])]]
        ELSE [ok |-> FALSE, rows |-> <<>>]

\* Shape of the array loadtxt returns (ndmin=0: axes of length one are
\* squeezed out, and input without data gives an empty one-dimensional array).
Shape(rows) ==
    LET nrows == Len(rows)
        ncols == IF nrows = 0 THEN 0 ELSE Len(rows[1])
    IN  IF nrows = 0 THEN <<0>>
        ELSE IF nrows = 1 /\ ncols = 1 THEN <<>>
        ELSE IF nrows = 1 THEN <<ncols>>
        ELSE IF ncols = 1 THEN <<nrows>>
        ELSE <<nrows, ncols>>

Ndim(rows) == Len(Shape(rows))

\* The step column sliced from the second row on (data[1:, 0]).
ColumnSkipFirst(rows, j) ==
    IF j = 1 THEN [i \in 1..(Len(rows) - 1) |-> rows[i + 1][j]]
    ELSE [i \in 1..Len(rows) |-> rows[i][j]]

\* data[:, j]
Column(rows, j) == [i \in 1..Len(rows) |-> rows[i][j]]

NoSeries(status) ==
    [status |-> status, step |-> <<>>, setpoint |-> <<>>, speed |-> <<>>,
     control |-> <<>>]

\* The body of load_log() with `skiprows` lines skipped: the four columns
\* of the log, or the exception raised.
LoadLogWith(file, skiprows) ==
    IF ~file.exists THEN NoSeries("FileNotFoundError")
    ELSE LET data == LoadTxt(file.text, skiprows)
         IN  IF ~data.ok THEN NoSeries("ValueError")
             ELSE IF Ndim(data.rows) # 2 \/ Shape(data.rows)[2] # 4
                  THEN NoSeries("ValueError")
                  ELSE [status |-> "ok",
                        step |-> Column(data.rows, 1),
                        setpoint |-> Column(data.rows, 2),
                        speed |-> Column(data.rows, 3),
                        control |-> Column(data.rows, 4)]

\* load_log() reading the first line as data (skiprows=0).
load_log_keep_first(file) == LoadLogWith(file, 0)

\* load_log(): np.loadtxt(LOG_FILE, delimiter=",", skiprows=1), then the
\* shape check and the split into columns.
load_log(file) == LoadLogWith(file, 1)

(***************************************************************************)
(* plot_response(): the metrics of the step response                       *)
(***************************************************************************)

RECURSIVE Gcd(_, _)
Gcd(a, b) == IF b = 0 THEN a ELSE Gcd(b, a % b)

\* A float: a number as a reduced fraction, or what division by zero gives.
Number(n, d) ==
    LET g == Gcd(Abs(n), Abs(d))
        s == IF d < 0 THEN -1 ELSE 1
    IN  [kind |-> "number", num |-> s * (n \div g), den |-> s * (d \div g)]

Special(k) == [kind |-> k, num |-> 0, den |-> 1]

\* n / d in floating point: no exception, inf or nan when d is zero.
Divide(n, d) ==
    IF d # 0 THEN Number(n, d)
    ELSE IF n > 0 THEN Special("inf")
    ELSE IF n < 0 THEN Special("-inf")
    ELSE Special("nan")

Times(x, k) ==
    IF x.kind = "number" THEN Number(x.num * k, x.den) ELSE x

Last(s) == s[Len(s)]

Max(s) == CHOOSE m \in {s[i] : i \in 1..Len(s)} : \A i \in 1..Len(s) : s[i] <= m

\* overshoot = (speed.max() - setpoint[-1]) / setpoint[-1] * 100
\*             if speed.max() > setpoint[-1] else 0
Overshoot(setpoint, speed) ==
    IF Max(speed) > Last(setpoint)
    THEN Times(Divide(Max(speed) - Last(setpoint), Last(setpoint)), 100)
    ELSE Number(0, 1)

NoMetrics ==
    [status |-> "none", final_speed |-> 0, final_error |-> 0,
     overshoot |-> Number(0, 1)]

Metrics(series) ==
    [status |-> "ok",
     final_speed |-> Last(series.speed),
     final_error |-> Last(series.setpoint) - Last(series.speed),
     overshoot |-> Overshoot(series.setpoint, series.speed)]

(***************************************************************************)
(* main(): the pipeline                                                    *)
(***************************************************************************)

\* Exit codes of the compiler and of the executed artifact (a negative
\* return code is the signal that killed the process), and what the
\* artifact writes to its diagnostic stream.
BuildCodes == {0, 1, 4}
RunCodes == {0, 1, -11}
StderrTexts == {"", "fault"}

StageOrder == <<"Builder", "Runner", "LogLoader", "Analyzer">>

VARIABLES
    pc,          \* where main() is
    exeExists,   \* EXE_PATH.exists()
    logFile,     \* LOG_FILE: whether it exists, and its text
    logOpen,     \* the handle run_firmware_and_capture_log() writes through is open
    logOpened,   \* LOG_FILE was opened for writing in this run
    printout,    \* the lines the artifact printed
    buildResult, \* result of the compiler's subprocess.run
    runResult,   \* result of the artifact's subprocess.run
    series,      \* what load_log() returned or raised
    metrics,     \* what plot_response() computed
    invoked,     \* the stages called so far, in order
    failed,      \* the stage whose exception ended the run
    raised,      \* the exception that ended the run
    reported,    \* the diagnostic text printed with the failure
    exitStatus   \* exit status of the process, once pc = "exit"

vars == <<pc, exeExists, logFile, logOpen, logOpened, printout,
          buildResult, runResult, series, metrics, invoked, failed, raised,
          reported, exitStatus>>

NoResult == [done |-> FALSE, returncode |-> 0, stderr |-> ""]
NoException == [class |-> "none", code |-> 0]
SystemExit(code) == [class |-> "SystemExit", code |-> code]
Exception(class) == [class |-> class, code |-> 0]

\* main() swallowing the exception: the handler prints and returns.
ExitStatusSwallowed(exc) ==
    IF exc.class = "SystemExit" THEN exc.code % 256 ELSE 0

\* The status the process ends with when `exc` leaves the try block of
\* main(): SystemExit is not an Exception and passes through with its code
\* (of which the system keeps the low eight bits); any Exception is caught
\* and replaced by SystemExit(1).
ExitStatus(exc) ==
    IF exc.class = "SystemExit" THEN exc.code % 256 ELSE 1

\* Stage `stage` raises `exc`: nothing after it in the try block runs.
Raise(stage, exc) ==
    /\ pc' = "exit"
    /\ failed' = stage
    /\ raised' = exc
    /\ exitStatus' = ExitStatus(exc)

NoRaise == UNCHANGED <<failed, raised, exitStatus>>

Init ==
    /\ pc = "build"
    /\ exeExists \in BOOLEAN
    /\ logFile \in {NoFile, OldLog}
    /\ logOpen = FALSE
    /\ logOpened = FALSE
    /\ printout = <<>>
    /\ buildResult = NoResult
    /\ runResult = NoResult
    /\ series = NoSeries("none")
    /\ metrics = NoMetrics
    /\ invoked = <<>>
    /\ failed = "none"
    /\ raised = NoException
    /\ reported = ""
    /\ exitStatus = 0

\* build_firmware() ignoring the compiler's return code.
build_firmware_unchecked ==
    /\ pc = "build"
    /\ invoked' = Append(invoked, "Builder")
    /\ \E rc \in BuildCodes :
          /\ buildResult' = [done |-> TRUE, returncode |-> rc, stderr |-> ""]
          /\ exeExists' \in BOOLEAN
    /\ pc' = "run"
    /\ NoRaise
    /\ UNCHANGED <<logFile, logOpen, logOpened, printout, runResult, series,
                   metrics, reported>>

\* build_firmware(): run the compiler; a non-zero return code is fatal and
\* its diagnostic text is printed.  The text of a successful build is never
\* read.  The compiler is opaque: whether the executable is there after a
\* return code of 0 is for run_firmware_and_capture_log() to find out.
build_firmware ==
    /\ pc = "build"
    /\ invoked' = Append(invoked, "Builder")
    /\ \E rc \in BuildCodes :
          IF rc # 0
          THEN /\ \E text \in StderrTexts :
                    /\ buildResult' = [done |-> TRUE, returncode |-> rc, stderr |-> text]
                    /\ reported' = text
               /\ Raise("Builder", SystemExit(rc))
               /\ UNCHANGED exeExists
          ELSE /\ buildResult' = [done |-> TRUE, returncode |-> rc, stderr |-> ""]
               /\ exeExists' \in BOOLEAN
               /\ pc' = "run"
               /\ UNCHANGED reported
               /\ NoRaise
    /\ UNCHANGED <<logFile, logOpen, logOpened, printout, runResult,
                   series, metrics>>

\* run_firmware_and_capture_log() without the check of EXE_PATH.
run_check_exists_skipped ==
    /\ pc = "run"
    /\ invoked' = Append(invoked, "Runner")
    /\ pc' = "run_open"
    /\ NoRaise
    /\ UNCHANGED <<exeExists, logFile, logOpen, logOpened, printout, buildResult,
                   runResult, series, metrics, reported>>

\* run_firmware_and_capture_log(), the check before anything is run.
run_check_exists ==
    /\ pc = "run"
    /\ invoked' = Append(invoked, "Runner")
    /\ IF ~exeExists
       THEN Raise("Runner", Exception("FileNotFoundError"))
       ELSE pc' = "run_open" /\ NoRaise
    /\ UNCHANGED <<exeExists, logFile, logOpen, logOpened, printout,
                   buildResult, runResult, series, metrics, reported>>

\* LOG_FILE.open("w"): the file is created or truncated.
run_open_log ==
    /\ pc = "run_open"
    /\ logFile' = [exists |-> TRUE, text |-> <<>>]
    /\ logOpen' = TRUE
    /\ logOpened' = TRUE
    /\ pc' = "run_exec"
    /\ UNCHANGED <<exeExists, printout, buildResult, runResult, series,
                   metrics, invoked, failed, raised, reported, exitStatus>>

\* subprocess.run([EXE_PATH], stdout=f, stderr=PIPE): the artifact prints
\* into the log and ends with a return code (its diagnostic text is read
\* only when that is not 0).  Without the executable the call raises and
\* the with block closes the handle.
run_subprocess ==
    /\ pc = "run_exec"
    /\ IF exeExists
       THEN /\ \E lines \in Printouts, rc \in RunCodes :
                 /\ printout' = lines
                 /\ logFile' = [exists |-> TRUE, text |-> RenderLog(lines)]
                 /\ \E text \in (IF rc # 0 THEN StderrTexts ELSE {""}) :
                       runResult' = [done |-> TRUE, returncode |-> rc, stderr |-> text]
            /\ pc' = "run_close"
            /\ UNCHANGED logOpen
            /\ NoRaise
       ELSE /\ logOpen' = FALSE
            /\ Raise("Runner", Exception("FileNotFoundError"))
            /\ UNCHANGED <<printout, logFile, runResult>>
    /\ UNCHANGED <<exeExists, logOpened, buildResult, series, metrics,
                   invoked, reported>>

\* The handle is left open (no with block, and no close before the raise).
run_close_log_leaked ==
    /\ pc = "run_close"
    /\ pc' = "run_result"
    /\ UNCHANGED <<exeExists, logFile, logOpen, logOpened, printout, buildResult,
                   runResult, series, metrics, invoked, failed, raised, reported,
                   exitStatus>>

\* Leaving the with block closes the handle.
run_close_log ==
    /\ pc = "run_close"
    /\ logOpen' = FALSE
    /\ pc' = "run_result"
    /\ UNCHANGED <<exeExists, logFile, logOpened, printout, buildResult,
                   runResult, series, metrics, invoked, failed, raised, reported,
                   exitStatus>>

\* The return code is looked at after the with block.
run_check_returncode ==
    /\ pc = "run_result"
    /\ IF runResult.returncode # 0
       THEN /\ reported' = runResult.stderr
            /\ Raise("Runner", SystemExit(runResult.returncode))
       ELSE /\ pc' = "load"
            /\ UNCHANGED reported
            /\ NoRaise
    /\ UNCHANGED <<exeExists, logFile, logOpen, logOpened, printout,
                   buildResult, runResult, series, metrics, invoked>>

\* step, setpoint, speed, control = load_log()
load_log_stage ==
    /\ pc = "load"
    /\ invoked' = Append(invoked, "LogLoader")
    /\ series' = load_log(logFile)
    /\ IF series'.status # "ok"
       THEN Raise("LogLoader", Exception(series'.status))
       ELSE pc' = "plot" /\ NoRaise
    /\ UNCHANGED <<exeExists, logFile, logOpen, logOpened, printout,
                   buildResult, runResult, metrics, reported>>

\* plot_response(step, setpoint, speed, control): the metrics are computed,
\* then the figure is saved, which the file system may refuse.
plot_response ==
    /\ pc = "plot"
    /\ invoked' = Append(invoked, "Analyzer")
    /\ metrics' = Metrics(series)
    /\ \E saved \in BOOLEAN :
          IF saved
          THEN pc' = "done" /\ NoRaise
          ELSE Raise("Analyzer", Exception("OSError"))
    /\ UNCHANGED <<exeExists, logFile, logOpen, logOpened, printout,
                   buildResult, runResult, series, reported>>

\* main() prints the summary and returns.
main_success ==
    /\ pc = "done"
    /\ pc' = "exit"
    /\ exitStatus' = 0
    /\ UNCHANGED <<exeExists, logFile, logOpen, logOpened, printout,
                   buildResult, runResult, series, metrics, invoked, failed,
                   raised, reported>>

Next ==
    \/ build_firmware
    \/ run_check_exists
    \/ run_open_log
    \/ run_subprocess
    \/ run_close_log
    \/ run_check_returncode
    \/ load_log_stage
    \/ plot_response
    \/ main_success

Spec == Init /\ [][Next]_vars

(***************************************************************************)
(* Properties                                                              *)
(***************************************************************************)

IsPrefix(p, q) == Len(p) <= Len(q) /\ SubSeq(q, 1, Len(p)) = p

Rest(p) == SubSeq(p, 2, Len(p))

\* The lines of a printout that are neither empty nor a comment.
DataLines(p) == SelectSeq(p, LAMBDA l : l.kind \notin {"blank", "comment"})

AllRecords(p) == \A i \in 1..Len(p) : p[i].kind = "record"

StrictlyIncreasing(q) == \A i \in 1..(Len(q) - 1) : q[i] < q[i + 1]

\* The series is, column by column and row by row, the records `recs`.
SeriesIs(recs) ==
    /\ series.step = [i \in 1..Len(recs) |-> recs[i].step]
    /\ series.setpoint = [i \in 1..Len(recs) |-> recs[i].setpoint]
    /\ series.speed = [i \in 1..Len(recs) |-> recs[i].measurement]
    /\ series.control = [i \in 1..Len(recs) |-> recs[i].output]

\* C1: the stages are invoked in the order Builder, Runner, LogLoader,
\* Analyzer, and once a stage has failed no later stage is ever invoked:
\* after a failed build only the Builder has been invoked, after a failed
\* run only Builder and Runner, after a failed load only the first three.
C1_StagesInOrderAndAbort ==
    /\ IsPrefix(invoked, StageOrder)
    /\ (buildResult.done /\ buildResult.returncode # 0)
          => invoked = SubSeq(StageOrder, 1, 1)
    /\ (failed = "Runner" \/ (runResult.done /\ runResult.returncode # 0))
          => invoked = SubSeq(StageOrder, 1, 2)
    /\ series.status \notin {"none", "ok"}
          => invoked = SubSeq(StageOrder, 1, 3)

C1_Witness ==
    /\ pc = "exit"
    /\ buildResult.returncode # 0
    /\ failed = "Builder"
    /\ invoked = <<"Builder">>

AllSucceeded ==
    /\ buildResult.done /\ buildResult.returncode = 0
    /\ runResult.done /\ runResult.returncode = 0
    /\ series.status = "ok"
    /\ metrics.status = "ok"
    /\ failed = "none"

\* C2 (as amended): the exit status is 0 exactly when all four stages
\* succeed; a failed build or run ends with the child's return code (its
\* low eight bits), and a missing artifact, a failed load and a failed
\* plot all end with status 1, so the status does not identify the stage.
C2_ExitStatus ==
    pc = "exit" =>
        /\ exitStatus = 0 <=> AllSucceeded
        /\ failed = "Builder" => exitStatus = buildResult.returncode % 256
        /\ (failed = "Runner" /\ runResult.done)
              => exitStatus = runResult.returncode % 256
        /\ (failed = "Runner" /\ ~runResult.done) => exitStatus = 1
        /\ failed \in {"LogLoader", "Analyzer"} => exitStatus = 1

C2_Witness ==
    /\ pc = "exit"
    /\ failed = "LogLoader"
    /\ exitStatus = 1

\* The exceptions a stage can end the run with.
RaisedBy(stage) ==
    CASE stage = "Builder" -> {SystemExit(rc) : rc \in BuildCodes \ {0}}
      [] stage = "Runner" ->
            {SystemExit(rc) : rc \in RunCodes \ {0}}
               \cup {Exception("FileNotFoundError")}
      [] stage = "LogLoader" ->
            {Exception("ValueError"), Exception("FileNotFoundError")}
      [] stage = "Analyzer" -> {Exception("OSError")}

\* C2 (as stated): the exit status is 0 exactly on full success, and the
\* status of a failed run is one no other failure class can end with.
C2_DistinctPerStage ==
    pc = "exit" =>
        /\ exitStatus = 0 <=> AllSucceeded
        /\ failed # "none" =>
              \A other \in {StageOrder[i] : i \in 1..Len(StageOrder)} \ {failed} :
                 \A exc \in RaisedBy(other) : exitStatus # ExitStatus(exc)

\* C3 (as amended): the first line of the log is skipped whether or not it
\* reads as four numbers, and no other line that holds data is skipped:
\* a returned series is exactly the records after the first line.
C3_FirstLineAlwaysSkipped ==
    series.status = "ok" =>
        /\ AllRecords(DataLines(Rest(printout)))
        /\ SeriesIs(DataLines(Rest(printout)))

C3_Witness ==
    /\ series.status = "ok"
    /\ printout[1].kind = "record"
    /\ Len(series.step) = Len(printout) - 1

\* C3 (as stated): a first line that reads as four numbers is kept as the
\* first record of the series, a first line that does not is skipped, and
\* no other line is skipped.
C3_HeaderAutoDetected ==
    series.status = "ok" =>
        IF ParseRow(RenderLine(printout[1])) # <<>>
              /\ RowOk(ParseRow(RenderLine(printout[1])))
              /\ Len(RenderLine(printout[1])) = 4
        THEN SeriesIs(DataLines(printout))
        ELSE SeriesIs(DataLines(Rest(printout)))

\* A log as the artifact is meant to print it: the header or not, then one
\* record or more, in strictly increasing step order.
WellFormed(p) ==
    LET body == IF p # <<>> /\ p[1].kind = "header" THEN Rest(p) ELSE p
    IN  /\ body # <<>>
        /\ AllRecords(body)
        /\ StrictlyIncreasing([i \in 1..Len(body) |-> body[i].step])

\* C4: a well-formed series written with or without the header and read
\* back by load_log() comes back element-wise equal, in the same order.
C4_RoundTrip ==
    (series.status # "none" /\ WellFormed(printout)) =>
        /\ series.status = "ok"
        /\ SeriesIs(IF printout[1].kind = "header" THEN Rest(printout) ELSE printout)

\* A log with no data after its first line, or with a later line that is
\* not a record of four numbers.
MalformedAfterFirstLine(p) ==
    \/ DataLines(Rest(p)) = <<>>
    \/ ~AllRecords(DataLines(Rest(p)))

\* C5 (as amended): a log that is malformed after its first line (no data
\* after the first line, which covers the empty file; a later row whose
\* field count is not four; a later row with a field that is not a number)
\* is never loaded: load_log() raises and returns no series.
C5_MalformedBodyRejected ==
    (series.status # "none" /\ MalformedAfterFirstLine(printout)) =>
        /\ series.status = "ValueError"
        /\ series.step = <<>> /\ series.setpoint = <<>>
        /\ series.speed = <<>> /\ series.control = <<>>

C5_Witness ==
    /\ series.status = "ValueError"
    /\ Len(printout) = 3
    /\ printout[1].kind = "header"
    /\ printout[2].kind = "record"
    /\ printout[3].kind = "short_row"

\* A log without data, with a row of three fields, with a field that is not
\* a number, with a header cut short, or with the header after the first line.
Malformed(p) ==
    \/ DataLines(p) = <<>>
    \/ \E i \in 1..Len(p) : p[i].kind \in {"short_row", "text_row", "short_header"}
    \/ \E i \in 2..Len(p) : p[i].kind = "header"

\* C5 (as stated): every malformed log (empty, a row anywhere whose field
\* count is not four, a field anywhere that is not a number, a malformed
\* header) makes load_log() fail.
C5_EveryMalformedRejected ==
    (series.status # "none" /\ Malformed(printout)) => series.status # "ok"

\* C6: with the artifact missing when the Runner is invoked, the Runner
\* raises FileNotFoundError at once: nothing is executed, and the log file
\* is neither opened nor changed, then or later in the run.
C6_MissingArtifact ==
    /\ [][(pc = "run" /\ ~exeExists) =>
             /\ pc' = "exit"
             /\ failed' = "Runner"
             /\ raised' = Exception("FileNotFoundError")
             /\ logFile' = logFile
             /\ ~logOpen' /\ ~logOpened'
             /\ ~runResult'.done]_vars
    /\ [][(pc = "exit") => (logFile' = logFile /\ logOpened' = logOpened)]_vars

C6_Witness ==
    /\ pc = "exit"
    /\ failed = "Runner"
    /\ raised = Exception("FileNotFoundError")
    /\ ~exeExists
    /\ logFile = OldLog

\* C7: when the artifact ends with a non-zero return code the Runner
\* raises with that code after printing the diagnostic stream, the log's
\* handle is closed by then, and the log holds what the artifact printed.
C7_ExecutionFailure ==
    (failed = "Runner" /\ runResult.done) =>
        /\ runResult.returncode # 0
        /\ pc = "exit"
        /\ raised = SystemExit(runResult.returncode)
        /\ reported = runResult.stderr
        /\ ~logOpen
        /\ logFile = [exists |-> TRUE, text |-> RenderLog(printout)]

C7_Witness ==
    /\ pc = "exit"
    /\ failed = "Runner"
    /\ runResult.returncode # 0
    /\ runResult.stderr = "fault"
    /\ reported = "fault"
    /\ Len(printout) = 2

\* max(0, (max(measured) - setpoint[-1]) / setpoint[-1] * 100)
ClampedOvershoot(setpoint, speed) ==
    LET pct == Number((Max(speed) - Last(setpoint)) * 100, Last(setpoint))
    IN  IF pct.num > 0 THEN pct ELSE Number(0, 1)

\* C8: with a non-zero last setpoint, of either sign, the overshoot is
\* max(0, (max(measured) - setpoint[-1]) / setpoint[-1] * 100), and so is
\* never negative.
C8_OvershootFormula ==
    (metrics.status = "ok" /\ Last(series.setpoint) # 0) =>
        /\ metrics.overshoot = ClampedOvershoot(series.setpoint, series.speed)
        /\ metrics.overshoot.kind = "number"
        /\ metrics.overshoot.num >= 0

\* C9: with a last setpoint of 0 nothing is divided by it, the overshoot
\* is reported as undefined rather than as a number, and the run goes on.
C9_DivisionGuard ==
    (metrics.status = "ok" /\ Last(series.setpoint) = 0) =>
        /\ metrics.overshoot.kind = "undefined"
        /\ failed \in {"none", "Analyzer"}

\* C10 (as amended): a series load_log() returns is not empty and its four
\* columns have the same length; the step order is not looked at.
C10_SeriesShape ==
    series.status = "ok" =>
        /\ Len(series.step) >= 1
        /\ Len(series.setpoint) = Len(series.step)
        /\ Len(series.speed) = Len(series.step)
        /\ Len(series.control) = Len(series.step)

C10_Witness ==
    /\ "Analyzer" \in {invoked[i] : i \in 1..Len(invoked)}
    /\ metrics.status = "ok"
    /\ ~StrictlyIncreasing(series.step)

\* C10 (as stated): a returned series is not empty, its columns have the
\* same length and its step index is strictly increasing.
C10_SeriesInvariant ==
    series.status = "ok" =>
        /\ Len(series.step) >= 1
        /\ Len(series.setpoint) = Len(series.step)
        /\ Len(series.speed) = Len(series.step)
        /\ Len(series.control) = Len(series.step)
        /\ StrictlyIncreasing(series.step)

====
